---- MODULE Spec2Model ----
\* Task manager backend (suhasvr2004/task_manager_ai_agent): the relational store
\* (tables tasks, reminders, notifications), the semantic index mirror, the
\* list-tasks response cache of the HTTP layer, the agent tools and the reminder
\* poller, as one state machine.  Every store call of a handler is one step of
\* the store; a poll cycle is a process that takes one store call per step.
EXTENDS Integers, Sequences, FiniteSets, TLC

\* ------------------------------------------------------------------ bounds
\* Rows ever inserted per table (ids are fresh uuid4 values, never reused).
MaxTasks == 2
MaxReminders == 2
MaxNotifs == 3
\* The per-poll row cap (.limit(100) in the poller's query), scaled to MaxReminders.
PollRowCap == 1
\* The poller specifications let at most this many hours pass.
MaxPollHours == 1
\* The row cap of the specification in which the due reminders stay below the cap.
IsolationRowCap == 2
\* The notification specification creates at most this many tasks and reminders.
NotifTasks == 1
NotifReminders == 1
\* The cache specification lets at most this many seconds pass.
MaxCacheSeconds == 5

\* ------------------------------------------------------- program constants
HourSeconds == 3600
MinuteSeconds == 60
ISTOffset == 19800
CacheTTL == 5
DefaultLimit == 50
\* search_tasks: list_tasks(limit=100)
SearchScanLimit == 100
MaxLimit == 100
EstMin == 0
EstMax == 24
TitleMinLength == 1
TitleMaxLength == 255

Priorities == {"low", "medium", "high", "urgent"}
Statuses == {"pending", "in_progress", "completed", "archived"}
ReminderStatuses == {"pending", "sent", "failed"}
Pollers == {1, 2}
\* The identifier a request carries: 0 stands for a string that is no UUID, the
\* others for well-formed UUIDs (stored or not).
NoId == 0
TaskIds == 1..MaxTasks
EmptyFn == [k \in {} |-> 0]
\* An optional column: the empty set is NULL / None, {v} is the value v.
None == {}
Some(v) == {v}

VARIABLES
    clock,        \* the instant, in seconds
    serverTz,     \* the server's UTC offset in seconds: datetime.now() is naive local time
    tasks,        \* table tasks: id -> row
    nextTask,     \* the number of task ids handed out so far, plus one
    reminders,    \* table reminders: id -> row
    nextRem,
    notifs,       \* table notifications: id -> row
    nextNotif,
    index,        \* the semantic index: the task ids that have an embedding
    cache,        \* routes._response_cache: key -> (data, time)
    poll,         \* each poller's position in check_and_send_reminders and its locals
    resp,         \* the response of the last request that returned
    rowsCreated,  \* history: reminder id -> notification rows inserted for it so far
    agent,        \* the settings, routes._agent and the reply of the last agent call
    sched         \* the ReminderScheduler object: its settings, _running, its jobs

storeVars == <<tasks, nextTask, reminders, nextRem, notifs, nextNotif, index>>
vars == <<clock, serverTz, tasks, nextTask, reminders, nextRem, notifs, nextNotif,
          index, cache, poll, resp, rowsCreated, agent, sched>>
\* The process state the store requests and the poll cycle never touch.
procVars == <<agent, sched>>

\* ------------------------------------------------------------ small helpers
Min(a, b) == IF a < b THEN a ELSE b
Remove(f, k) == [x \in DOMAIN f \ {k} |-> f[x]]
Put(f, k, v) == [x \in DOMAIN f \cup {k} |-> IF x = k THEN v ELSE f[x]]

\* datetime.now(): the naive wall clock of the server's zone.
ServerNow == clock + serverTz
\* get_current_ist_time(): the wall clock of Asia/Kolkata.
get_current_ist_time == clock + ISTOffset

\* ------------------------------------------------------------------ schemas
\* A title is a sequence of characters; " " is whitespace, "a" is not.
RECURSIVE StripLeft(_)
StripLeft(t) == IF t # <<>> /\ Head(t) = " " THEN StripLeft(Tail(t)) ELSE t
RECURSIVE StripRight(_)
StripRight(t) ==
    IF t # <<>> /\ t[Len(t)] = " " THEN StripRight(SubSeq(t, 1, Len(t) - 1)) ELSE t
\* TaskBase.validate_title: v.strip(), run after the Field constraints.
validate_title(t) == StripRight(StripLeft(t))
\* TaskBase.title: str = Field(..., min_length=1, max_length=255), on the raw input.
TitleValid(t) == TitleMinLength <= Len(t) /\ Len(t) <= TitleMaxLength
\* TaskBase.estimated_hours: Optional[float] = Field(None, ge=0, le=24).
ValidEstimatedHours(est) == \A h \in est : EstMin <= h /\ h <= EstMax
\* TaskCreate as pydantic validates it: the enums and the estimated_hours range.
TaskCreateValid(priority, status, est) ==
    /\ priority \in Priorities
    /\ status \in Statuses
    /\ ValidEstimatedHours(est)
\* TaskUpdate: every field Optional; priority and status are enums, estimated_hours
\* is a bare Optional[float] with no range.  An update is a record whose fields are
\* optionals: None is "not set".
TaskUpdateValid(u) ==
    /\ u.priority \subseteq Priorities
    /\ u.status \subseteq Statuses
\* A partial with no field set, and one that sets the status only.
NoUpdate == [title |-> None, priority |-> None, status |-> None, est |-> None]
StatusUpdate(s) == [NoUpdate EXCEPT !.status = Some(s)]

\* A foreign key without ON DELETE CASCADE that is not enforced either: the
\* reminders of a deleted task stay.
DeleteWithoutCascade(rs, tid) == rs
\* ---------------------------------------------------------------- the store
\* delete from tasks where id = tid, with the reminders' foreign key
\* "task_id UUID NOT NULL REFERENCES tasks(id) ON DELETE CASCADE".
CascadeReminders(rs, tid) ==
    [r \in {x \in DOMAIN rs : rs[x].task_id # tid} |-> rs[r]]
\* What the notifications table does with the rows of a deleted task is its schema's
\* choice (cascade, or keep the row): either can happen.
NotifsAfterTaskDelete(ns, tid, cascade) ==
    IF cascade THEN [n \in {x \in DOMAIN ns : ns[x].task_id # tid} |-> ns[n]] ELSE ns
\* insert into reminders: the foreign key refuses a task_id that matches no task.
ReminderInsertAccepted(ts, tid) == tid \in DOMAIN ts

\* update reminders set status = s where id = rid (no row: nothing changes).
UpdateReminderStatus(rs, rid, s) ==
    IF rid \in DOMAIN rs THEN [rs EXCEPT ![rid].status = s] ELSE rs


\* select ... from tasks where id = tid.
TaskFound(ts, tid) == tid \in DOMAIN ts

\* insert into notifications: the row _create_notification builds (is_read False).
\* reminder_id 0 is the absent reminder_id key (None values are removed).
NotificationRow(tid, rid, category) ==
    [task_id |-> tid, reminder_id |-> rid, category |-> category, is_read |-> FALSE]

\* ------------------------------------------------------------ task service
\* str.lower() on the strings the requests carry.
Lower(s) ==
    CASE s \in {"HIGH", "High"} -> "high"
      [] s \in {"PENDING", "Pending"} -> "pending"
      [] s \in {"COMPLETED", "Completed"} -> "completed"
      [] OTHER -> s
\* "if status:" / "if priority:": an empty string is not a filter.
Truthy(s) == s # ""

\* A create that stores the title as it was sent.
NewTaskRowUnstripped(title, priority, status, est) ==
    [title |-> title, priority |-> priority, status |-> status,
     est |-> IF est = None THEN Some(0) ELSE est,
     created_at |-> ServerNow, updated_at |-> ServerNow]
\* TaskService.create_task + SupabaseClient.create_task: the row that is inserted.
\* estimated_hours None becomes 0.0; the timestamps are datetime.now().isoformat().
NewTaskRow(title, priority, status, est) ==
    [title |-> validate_title(title), priority |-> priority, status |-> status,
     est |-> IF est = None THEN Some(0) ELSE est,
     created_at |-> ServerNow, updated_at |-> ServerNow]

\* _create_task_impl: the priority string the agent passes, mapped to the enum.
AgentPriority(p) ==
    IF Lower(p) \in {"high", "urgent", "low"} THEN Lower(p) ELSE "medium"

\* An update that drops the partial and only refreshes updated_at.
MergeNothing(row, u) == [row EXCEPT !.updated_at = ServerNow]
\* SupabaseClient.update_task: the provided fields are merged into the row and
\* updated_at is always refreshed.
MergeUpdate(row, u) ==
    [title |-> IF u.title = None THEN row.title ELSE CHOOSE t \in u.title : TRUE,
     priority |-> IF u.priority = None THEN row.priority ELSE CHOOSE p \in u.priority : TRUE,
     status |-> IF u.status = None THEN row.status ELSE CHOOSE s \in u.status : TRUE,
     est |-> IF u.est = None THEN row.est ELSE u.est,
     created_at |-> row.created_at,
     updated_at |-> ServerNow]
\* model_dump(exclude_unset=True) of an update with no field set is the empty dict.
UpdatesEmpty(u) == u.title = None /\ u.priority = None /\ u.status = None /\ u.est = None

\* ------------------------------------------------------- the response cache
\* A write that went through marks every entry that was computed before it
\* (history only: the code keeps no such mark).
MarkStale(c) == [k \in DOMAIN c |-> [c[k] EXCEPT !.stale = TRUE]]
\* The HTTP write endpoints call _response_cache.clear() once the service call
\* returned; the agent's tools call TaskService directly and leave the cache alone.
\* wrote: the call changed a row of table tasks.
CacheAfterWrite(via, c, wrote) ==
    IF via = "http" THEN EmptyFn ELSE IF wrote THEN MarkStale(c) ELSE c

\* ------------------------------------------------------------ the responses
\* op, via, id, upd, req: the request; code, data, hit: its answer.  History only:
\* store (the request called the persistence layer), was (the task's status before
\* the request), ixFailed (the index call raised), stale, after, priority, given
\* (the title and estimated_hours of the create that `after` names).
Resp(op, code, id) ==
    [op |-> op, via |-> "", code |-> code, id |-> id, upd |-> NoUpdate, priority |-> "",
     hit |-> FALSE, stale |-> FALSE, data |-> <<>>, after |-> NoId,
     store |-> FALSE, was |-> "", ixFailed |-> FALSE,
     req |-> [status |-> None, priority |-> None, limit |-> 0, offset |-> 0],
     given |-> [title |-> <<>>, est |-> None]]
\* The answer of a request that was answered without a call of the store, and of one
\* that called it.
Local(op, via, code, id) == [Resp(op, code, id) EXCEPT !.via = via]
Served(op, via, code, id) == [Resp(op, code, id) EXCEPT !.via = via, !.store = TRUE]
\* An agent tool's result has no HTTP status: {"success": False} / {"error": ..}
\* is recorded as ToolFailed, a success as ToolOk.
ToolFailed == 0
ToolOk == 200
Code(via, http) == IF via = "http" THEN http ELSE IF http < 300 THEN ToolOk ELSE ToolFailed

\* ------------------------------------------------------- agent and scheduler
LLMProviders == {"gemini", "openai", "anthropic"}
\* No reply yet.
NoReply == [status |-> "", error |-> "", output |-> "", timestamp |-> None]
\* routes._agent = None, with settings that hold no key.  provider: LLM_PROVIDER in
\* lower case; keys: the providers whose API key is set; usable: the providers whose
\* client constructor succeeds; llm: the provider of routes._agent's LLM; reached:
\* how far the last agent request got; message, raised, markers: what it was given.
NoAgent ==
    [provider |-> "gemini", keys |-> {}, usable |-> {}, llm |-> "none",
     op |-> "none", code |-> 0, reached |-> "none", reply |-> NoReply,
     message |-> "", raised |-> FALSE, markers |-> {}]

\* TaskManagerAgent._initialize_llm_with_fallback: the provider of the LLM it
\* returns, or "RuntimeError".
initialize_llm_with_fallback(provider, keys, usable) ==
    IF /\ provider = "gemini" \/ provider = ""
       /\ "gemini" \in keys /\ "gemini" \in usable
    THEN "gemini"
    ELSE IF /\ provider = "openai" \/ "gemini" \notin keys
            /\ "openai" \in keys /\ "openai" \in usable
    THEN "openai"
    ELSE IF /\ provider = "anthropic" \/ "openai" \notin keys
            /\ "anthropic" \in keys /\ "anthropic" \in usable
    THEN "anthropic"
    ELSE "RuntimeError"

\* The substrings the error classification looks for in str(e).
QuotaMarkers == {"429", "quota", "insufficient_quota", "resource_exhausted"}
AuthMarkers == {"api key", "authentication"}
\* An error handler that looks for the API-key markers first.
ClassifyAuthFirst(markers) ==
    IF markers \cap AuthMarkers # {} THEN "api_key"
    ELSE IF markers \cap QuotaMarkers # {} THEN "quota"
    ELSE IF "tool" \in markers THEN "tool"
    ELSE "other"
\* process_user_input, the except branch: the class of an error whose text holds
\* the given markers.
Classify(markers) ==
    IF markers \cap QuotaMarkers # {} THEN "quota"
    ELSE IF markers \cap AuthMarkers # {} THEN "api_key"
    ELSE IF "tool" \in markers THEN "tool"
    ELSE "other"
\* process_user_input: the record it returns.  raised = FALSE: the executor
\* returned (an empty output is replaced by a fallback message); raised = TRUE:
\* something in the try block raised an error whose text holds the markers.
process_user_input(raised, markers, now) ==
    IF ~raised
    THEN [status |-> "success", error |-> "", output |-> "answer", timestamp |-> Some(now)]
    ELSE [status |-> "error", error |-> Classify(markers),
          output |-> "guidance", timestamp |-> Some(now)]

\* routes.get_agent: the agent is constructed on first use and kept.
GetAgent ==
    /\ agent' = [agent EXCEPT
                    !.op = "get_agent", !.code = 0, !.reply = NoReply,
                    !.message = "", !.raised = FALSE, !.markers = {},
                    !.reached = IF agent.llm = "none" THEN "construct" ELSE "cached",
                    !.llm = IF agent.llm # "none" THEN @
                            ELSE LET l == initialize_llm_with_fallback(
                                              agent.provider, agent.keys, agent.usable)
                                 IN IF l = "RuntimeError" THEN "none" ELSE l]
    /\ UNCHANGED <<clock, serverTz, storeVars, cache, poll, resp, rowsCreated, sched>>

\* An endpoint that hands every message to the agent.
MessageAlwaysGiven(message) == FALSE
\* message = request.get("message", ""); if not message: raise HTTPException(400).
MessageMissing(message) == message = ""
\* POST /agent/chat.  message: "" when the body holds none or an empty one;
\* raised/markers: what the executor does when it is invoked.
AgentChat(message, raised, markers) ==
    /\ LET l == IF agent.llm # "none" THEN agent.llm
                ELSE initialize_llm_with_fallback(agent.provider, agent.keys, agent.usable)
       IN
       IF MessageMissing(message)
       THEN agent' = [agent EXCEPT !.op = "chat", !.code = 400, !.reached = "validate",
                                   !.reply = NoReply, !.message = message,
                                   !.raised = FALSE, !.markers = {}]
       ELSE IF l = "RuntimeError"
       THEN agent' = [agent EXCEPT !.op = "chat", !.code = 200, !.reached = "construct",
                         !.message = message, !.raised = FALSE, !.markers = {},
                         !.reply = [status |-> "error", error |-> "RuntimeError",
                                    output |-> "guidance", timestamp |-> Some(ServerNow)]]
       ELSE agent' = [agent EXCEPT !.op = "chat", !.code = 200, !.reached = "invoke",
                         !.llm = l, !.message = message,
                         !.raised = raised, !.markers = IF raised THEN markers ELSE {},
                         !.reply = process_user_input(raised, markers, ServerNow)]
    /\ UNCHANGED <<clock, serverTz, storeVars, cache, poll, resp, rowsCreated, sched>>

\* ReminderScheduler.__init__: scheduler None, _running False.
\* enabled: settings.SCHEDULER_ENABLED; scheduler: self.scheduler ("none", or an
\* AsyncIOScheduler that is "new", "started" or "shutdown"); running: self._running;
\* active: the AsyncIOScheduler objects that were started and not shut down, each of
\* which runs the job check_reminders; op, did: the last call and what it did;
\* stopped (history): a stop() has shut a scheduler down.
NewScheduler(enabled) ==
    [enabled |-> enabled, scheduler |-> "none", running |-> FALSE, active |-> 0,
     op |-> "none", did |-> "none", stopped |-> FALSE]
\* The scheduler after lifespan's startup with SCHEDULER_ENABLED true.
StartedScheduler ==
    [enabled |-> TRUE, scheduler |-> "started", running |-> TRUE, active |-> 1,
     op |-> "start", did |-> "started", stopped |-> FALSE]

\* The places where start() can raise: nowhere, in AsyncIOScheduler(), in add_job,
\* in scheduler.start().  A call that raises has had no effect.
StartOutcomes == {"ok", "constructor", "add_job", "start"}
\* A start() that does not look at _running.
NeverRunning(s) == FALSE
\* start(): "if self._running: return"
AlreadyRunning(s) == s.running
\* ReminderScheduler.start
SchedStart(outcome) ==
    /\ sched' =
          IF AlreadyRunning(sched)
          THEN [sched EXCEPT !.op = "start", !.did = "already_running"]
          ELSE IF ~sched.enabled
          THEN [sched EXCEPT !.op = "start", !.did = "disabled"]
          ELSE IF outcome = "ok"
          THEN [sched EXCEPT !.op = "start", !.did = "started", !.scheduler = "started",
                             !.running = TRUE, !.active = @ + 1]
          ELSE [sched EXCEPT !.op = "start", !.did = "failed", !.running = FALSE,
                             !.scheduler = IF outcome = "constructor" THEN @ ELSE "new"]
    /\ UNCHANGED <<clock, serverTz, storeVars, cache, poll, resp, rowsCreated, agent>>
\* ReminderScheduler.stop.  shutdownOk = FALSE: scheduler.shutdown() raised, which is
\* logged, and _running stays as it was.
SchedStop(shutdownOk) ==
    /\ sched' =
          IF sched.scheduler # "none" /\ sched.running
          THEN IF shutdownOk
               THEN [sched EXCEPT !.op = "stop", !.did = "stopped", !.scheduler = "shutdown",
                                  !.running = FALSE, !.active = @ - 1, !.stopped = TRUE]
               ELSE [sched EXCEPT !.op = "stop", !.did = "failed"]
          ELSE [sched EXCEPT !.op = "stop", !.did = "not_running"]
    /\ UNCHANGED <<clock, serverTz, storeVars, cache, poll, resp, rowsCreated, agent>>

\* ---------------------------------------------------------------- the poller
NoRow == [id |-> NoId, task_id |-> NoId]
IdlePoll ==
    [pc |-> "idle", now |-> 0, batch |-> {}, tbatch |-> {}, cur |-> NoRow,
     mark |-> "pending", due |-> {}, read |-> {}, wfail |-> {}, done |-> FALSE]

\* A due-reminders query without the status filter.
DueAnyStatus(rs, now) == {r \in DOMAIN rs : rs[r].reminder_time <= now}
\* .eq("status", "pending").lte("reminder_time", now.isoformat())
DueReminders(rs, now) ==
    {r \in DOMAIN rs : rs[r].status = "pending" /\ rs[r].reminder_time <= now}
\* .limit(cap): any cap of the due rows (the query has no ORDER BY).
Batches(rs, now, cap) ==
    {B \in SUBSET DueReminders(rs, now) :
        Cardinality(B) = Min(cap, Cardinality(DueReminders(rs, now)))}
\* .limit(100), scaled to PollRowCap.
ReadableBatches(rs, now) == Batches(rs, now, PollRowCap)
Snapshot(rs, B) == {[id |-> r, task_id |-> rs[r].task_id] : r \in B}

\* A check that looks at the status only.
EstimatedTimeIgnored(row, now) == row.status = "in_progress"
\* _check_estimated_time_completions: the rows the query returns
\* (.eq("status","in_progress").not_.is_("estimated_hours","null").gt("estimated_hours",0))
\* whose expected completion, updated_at + estimated_hours, minus one minute has passed.
EstimatedTimeReached(row, now) ==
    /\ row.status = "in_progress"
    /\ row.est # None
    /\ \A h \in row.est : h > 0 /\ now >= row.updated_at + h * HourSeconds - MinuteSeconds
EstimatedTimeTasks(ts, now) == {t \in DOMAIN ts : EstimatedTimeReached(ts[t], now)}
\* .eq("task_id", t).eq("notification_category", "estimated_time").eq("is_read", False)
UnreadEstimated(ns, t) ==
    {n \in DOMAIN ns : ns[n].task_id = t /\ ns[n].category = "estimated_time"
                       /\ ~ns[n].is_read}
\* A poller that skips the look-up of an existing unread notification.
NotifyEstimatedUnconditionally(ns, t) == TRUE
\* "if not existing_notif.data": create one only when no unread one exists.
ShouldNotifyEstimated(ns, t) == UnreadEstimated(ns, t) = {}

\* A poller that writes the status back unchanged.
StatusLeftPending == "pending"
\* The status _send_reminder_notification writes after the notification step.
StatusAfterNotify == "sent"
\* The status it writes when the task is not found, or when a step raised.
StatusOnFailure == "failed"

\* Where the cycle goes after a reminder is done: the next reminder, or phase 2.
AfterReminder(batch) == IF batch = {} THEN "est_query" ELSE "rem_fetch"
\* A loop over the tasks that ends at the first task.
EstLoopEnds(tbatch) == "idle"
\* Where the cycle goes after a task is done: the next task, or the end of the cycle.
AfterEstTask(tbatch) == IF tbatch = {} THEN "idle" ELSE "est_check"

\* check_and_send_reminders up to the reminders query.  queryOk = FALSE: the query
\* raised (logged; the cycle goes on with phase 2).
PollRead(p, queryOk, readable) ==
    /\ poll[p].pc = "idle"
    /\ \E B \in readable :
          LET read == IF queryOk THEN B ELSE {} IN
          poll' = [poll EXCEPT ![p] =
                      [pc |-> AfterReminder(read), now |-> ServerNow,
                       batch |-> Snapshot(reminders, read), tbatch |-> {},
                       cur |-> NoRow, mark |-> "pending",
                       due |-> DueReminders(reminders, ServerNow),
                       read |-> read, wfail |-> {}, done |-> FALSE]]
    /\ UNCHANGED <<clock, serverTz, procVars, storeVars, cache, resp, rowsCreated>>
PollStart(p, queryOk) == PollRead(p, queryOk, ReadableBatches(reminders, ServerNow))
\* The same when fewer reminders are due than the query's limit.
PollStartBelowCap(p, queryOk) ==
    PollRead(p, queryOk, Batches(reminders, ServerNow, IsolationRowCap))

\* _send_reminder_notification, the task lookup of the next reminder of the batch.
\* fetchOk = FALSE: the lookup raised, and the except branch marks it "failed".
RemFetch(p, fetchOk) ==
    /\ poll[p].pc = "rem_fetch"
    /\ \E r \in poll[p].batch :
          poll' = [poll EXCEPT ![p].batch = @ \ {r}, ![p].cur = r,
                      ![p].pc = IF fetchOk /\ TaskFound(tasks, r.task_id)
                                THEN "rem_notify" ELSE "rem_mark",
                      ![p].mark = IF fetchOk /\ TaskFound(tasks, r.task_id)
                                  THEN "pending" ELSE StatusOnFailure]
    /\ UNCHANGED <<clock, serverTz, procVars, storeVars, cache, resp, rowsCreated>>

\* _create_notification for the reminder: the insert, whose failure is logged and
\* not raised; then the reminder is to be marked.
RemNotify(p, insertOk) ==
    /\ poll[p].pc = "rem_notify"
    /\ insertOk => nextNotif <= MaxNotifs
    /\ IF insertOk
       THEN /\ notifs' = Put(notifs, nextNotif,
                             NotificationRow(poll[p].cur.task_id, poll[p].cur.id, "reminder"))
            /\ nextNotif' = nextNotif + 1
            /\ rowsCreated' = [rowsCreated EXCEPT ![poll[p].cur.id] = @ + 1]
       ELSE UNCHANGED <<notifs, nextNotif, rowsCreated>>
    /\ poll' = [poll EXCEPT ![p].pc = "rem_mark", ![p].mark = StatusAfterNotify]
    /\ UNCHANGED <<clock, serverTz, procVars, tasks, nextTask, reminders, nextRem, index, cache, resp>>

\* _update_reminder_status: the update, whose failure is logged and not raised.
RemMark(p, updateOk) ==
    /\ poll[p].pc = "rem_mark"
    /\ reminders' = IF updateOk
                    THEN UpdateReminderStatus(reminders, poll[p].cur.id, poll[p].mark)
                    ELSE reminders
    /\ poll' = [poll EXCEPT ![p].pc = AfterReminder(poll[p].batch),
                            ![p].cur = NoRow, ![p].mark = "pending",
                            ![p].wfail = IF updateOk THEN @ ELSE @ \cup {poll[p].cur.id}]
    /\ UNCHANGED <<clock, serverTz, procVars, tasks, nextTask, nextRem, notifs, nextNotif,
                   index, cache, resp, rowsCreated>>

\* _check_estimated_time_completions, the tasks query.  queryOk = FALSE: it raised,
\* which ends the cycle.
EstQuery(p, queryOk) ==
    /\ poll[p].pc = "est_query"
    /\ LET ts == IF queryOk THEN EstimatedTimeTasks(tasks, poll[p].now) ELSE {} IN
       poll' = [poll EXCEPT ![p].tbatch = ts, ![p].pc = AfterEstTask(ts),
                            ![p].now = IF ts = {} THEN 0 ELSE @,
                            ![p].done = (ts = {})]
    /\ UNCHANGED <<clock, serverTz, procVars, storeVars, cache, resp, rowsCreated>>

\* The lookup of an unread "estimated_time" notification of the next task.
\* queryOk = FALSE: it raised, and the loop continues with the next task.
EstCheck(p, queryOk) ==
    /\ poll[p].pc = "est_check"
    /\ \E t \in poll[p].tbatch :
          LET rest == poll[p].tbatch \ {t}
              create == queryOk /\ ShouldNotifyEstimated(notifs, t) IN
          poll' = [poll EXCEPT ![p].tbatch = rest,
                      ![p].cur = IF create THEN [id |-> NoId, task_id |-> t] ELSE NoRow,
                      ![p].pc = IF create THEN "est_insert" ELSE AfterEstTask(rest),
                      ![p].now = IF ~create /\ rest = {} THEN 0 ELSE @,
                      ![p].done = (~create /\ rest = {})]
    /\ UNCHANGED <<clock, serverTz, procVars, storeVars, cache, resp, rowsCreated>>

\* _create_notification for the task whose estimated time is reached.
EstInsert(p, insertOk) ==
    /\ poll[p].pc = "est_insert"
    /\ insertOk => nextNotif <= MaxNotifs
    /\ IF insertOk
       THEN /\ notifs' = Put(notifs, nextNotif,
                             NotificationRow(poll[p].cur.task_id, NoId, "estimated_time"))
            /\ nextNotif' = nextNotif + 1
       ELSE UNCHANGED <<notifs, nextNotif>>
    /\ poll' = [poll EXCEPT ![p].cur = NoRow, ![p].pc = AfterEstTask(poll[p].tbatch),
                            ![p].now = IF poll[p].tbatch = {} THEN 0 ELSE @,
                            ![p].done = (poll[p].tbatch = {})]
    /\ UNCHANGED <<clock, serverTz, procVars, tasks, nextTask, reminders, nextRem, index,
                   cache, resp, rowsCreated>>

\* The process dies inside a cycle and is restarted: the cycle's locals are lost.
Crash(p) ==
    /\ poll[p].pc # "idle"
    /\ poll' = [poll EXCEPT ![p] = IdlePoll]
    /\ UNCHANGED <<clock, serverTz, procVars, storeVars, cache, resp, rowsCreated>>


\* --------------------------------------------------------------- list tasks
RECURSIVE Descending(_)
\* .order("created_at", desc=True): ids are handed out in creation order.
Descending(S) ==
    IF S = {} THEN <<>>
    ELSE LET m == CHOOSE x \in S : \A y \in S : y <= x IN <<m>> \o Descending(S \ {m})
\* A record of the response: of the selected columns, the id and the two filtered ones.
TaskRecord(ts, i) == [id |-> i, priority |-> ts[i].priority, status |-> ts[i].status]
\* A query that applies no filter.
MatchingAll(ts, status, priority) == DOMAIN ts
\* The rows .eq("status", ..).eq("priority", ..) keeps; a filter that is None is not applied.
Matching(ts, status, priority) ==
    {i \in DOMAIN ts : /\ \A s \in status : Truthy(s) => ts[i].status = Lower(Lower(s))
                       /\ \A p \in priority : Truthy(p) => ts[i].priority = Lower(Lower(p))}
\* SupabaseClient.list_tasks: .order("created_at", desc=True).range(offset, offset + limit - 1)
list_tasks(ts, status, priority, limit, offset) ==
    LET ids == Descending(Matching(ts, status, priority))
        last == Min(offset + limit, Len(ids))
    IN [k \in 1..(IF last > offset THEN last - offset ELSE 0) |-> TaskRecord(ts, ids[offset + k])]
\* The fallback after the ranged query raised: .order("created_at", desc=True).limit(limit)
list_tasks_fallback(ts, status, priority, limit) ==
    LET ids == Descending(Matching(ts, status, priority))
        last == Min(limit, Len(ids))
    IN [k \in 1..(IF last > 0 THEN last ELSE 0) |-> TaskRecord(ts, ids[k])]
Ids(data) == {data[k].id : k \in DOMAIN data}
\* GET /tasks: status: Optional[TaskStatus], priority: Optional[TaskPriority],
\* limit: int = Query(50, le=100), offset: int = Query(0, ge=0).
ListQueryValid(status, priority, limit, offset) ==
    /\ status \subseteq Statuses
    /\ priority \subseteq Priorities
    /\ limit <= MaxLimit
    /\ offset >= 0

\* ----------------------------------------------------------- the requests
\* The status of task id, "" when there is none.
StatusOf(ts, id) == IF id \in DOMAIN ts THEN ts[id].status ELSE ""
\* A service that lets the index mirror's exception through.
IndexFailureSurfaced(ixOk) == ixOk
\* except Exception as chroma_error: logger.warning(...): the request goes on.
IndexFailureSwallowed(ixOk) == TRUE

\* POST /tasks (via "http") and the agent's create_task tool (via "agent").
\* dbOk = FALSE: the insert raised.  ixOk = FALSE: the index mirror raised.
CreateTask(via, title, priority, status, est, dbOk, ixOk) ==
    /\ nextTask <= MaxTasks
    /\ LET p == IF via = "agent" THEN AgentPriority(priority) ELSE priority
           s == IF via = "agent" THEN "pending" ELSE status
       IN IF ~(TitleValid(title) /\ TaskCreateValid(p, s, est))
          THEN /\ resp' = Local("create", via, Code(via, 422), NoId)
               /\ UNCHANGED <<storeVars, cache>>
          ELSE IF ~dbOk
          THEN /\ resp' = Served("create", via, Code(via, 500), NoId)
               /\ UNCHANGED <<storeVars, cache>>
          ELSE /\ tasks' = Put(tasks, nextTask, NewTaskRow(title, p, s, est))
               /\ nextTask' = nextTask + 1
               /\ index' = IF ixOk THEN index \cup {nextTask} ELSE index
               /\ UNCHANGED <<reminders, nextRem, notifs, nextNotif>>
               /\ IF ixOk \/ IndexFailureSwallowed(ixOk)
                  THEN /\ cache' = CacheAfterWrite(via, cache, TRUE)
                       /\ resp' = [Served("create", via, Code(via, 201), nextTask)
                                      EXCEPT !.priority = p, !.ixFailed = ~ixOk,
                                             !.given = [title |-> title, est |-> est]]
                  ELSE /\ cache' = cache
                       /\ resp' = [Served("create", via, Code(via, 500), NoId)
                                      EXCEPT !.ixFailed = TRUE]
    /\ UNCHANGED <<clock, serverTz, procVars, poll, rowsCreated>>

\* The partial the agent's update_task tool builds: it has no estimated_hours
\* argument and takes a title only when it is not empty.
AgentUpdate(upd) ==
    [upd EXCEPT !.est = None, !.title = IF upd.title = Some(<<>>) THEN None ELSE @]

\* PATCH /tasks/{id} and the agent's update_task tool (which does not check the
\* id's format: the store refuses a malformed one).
UpdateTask(via, id, upd, dbOk, ixOk) ==
    /\ LET u == IF via = "agent" THEN AgentUpdate(upd) ELSE upd
           R(r) == [r EXCEPT !.upd = upd, !.was = StatusOf(tasks, id)]
       IN
       IF via = "http" /\ id = NoId
       THEN resp' = R(Local("update", via, 400, id)) /\ UNCHANGED <<tasks, cache>>
       ELSE IF ~TaskUpdateValid(u)
       THEN resp' = R(Local("update", via, Code(via, 422), id)) /\ UNCHANGED <<tasks, cache>>
       ELSE IF UpdatesEmpty(u)
       THEN resp' = R(Local("update", via, Code(via, 404), id)) /\ UNCHANGED <<tasks, cache>>
       ELSE IF ~dbOk \/ id = NoId
       THEN resp' = R(Served("update", via, Code(via, 500), id)) /\ UNCHANGED <<tasks, cache>>
       ELSE IF id \notin DOMAIN tasks
       THEN resp' = R(Served("update", via, Code(via, 404), id)) /\ UNCHANGED <<tasks, cache>>
       ELSE /\ tasks' = [tasks EXCEPT ![id] = MergeUpdate(@, u)]
            /\ IF ixOk \/ IndexFailureSwallowed(ixOk)
               THEN /\ cache' = CacheAfterWrite(via, cache, TRUE)
                    /\ resp' = [R(Served("update", via, Code(via, 200), id))
                                   EXCEPT !.ixFailed = ~ixOk]
               ELSE /\ cache' = cache
                    /\ resp' = [R(Served("update", via, Code(via, 500), id))
                                   EXCEPT !.ixFailed = TRUE]
    /\ UNCHANGED <<clock, serverTz, procVars, nextTask, reminders, nextRem, notifs, nextNotif,
                   index, poll, rowsCreated>>

\* DELETE /tasks/{id} and the agent's delete_task tool.  SupabaseClient.delete_task
\* returns True whether or not a row matched.
DeleteTask(via, id, cascadeNotifs, dbOk, ixOk) ==
    /\ LET R(r) == [r EXCEPT !.was = StatusOf(tasks, id)] IN
       IF via = "http" /\ id = NoId
       THEN resp' = R(Local("delete", via, 400, id)) /\ UNCHANGED <<storeVars, cache>>
       ELSE IF ~dbOk \/ id = NoId
       THEN resp' = R(Served("delete", via, Code(via, 500), id)) /\ UNCHANGED <<storeVars, cache>>
       ELSE /\ tasks' = Remove(tasks, id)
            /\ reminders' = CascadeReminders(reminders, id)
            /\ notifs' = NotifsAfterTaskDelete(notifs, id, cascadeNotifs)
            /\ index' = IF ixOk THEN index \ {id} ELSE index
            /\ UNCHANGED <<nextTask, nextRem, nextNotif>>
            /\ IF ixOk \/ IndexFailureSwallowed(ixOk)
               THEN /\ cache' = CacheAfterWrite(via, cache, id \in DOMAIN tasks)
                    /\ resp' = [R(Served("delete", via, Code(via, 204), id))
                                   EXCEPT !.ixFailed = ~ixOk]
               ELSE /\ cache' = cache
                    /\ resp' = [R(Served("delete", via, Code(via, 500), id))
                                   EXCEPT !.ixFailed = TRUE]
    /\ UNCHANGED <<clock, serverTz, procVars, poll, rowsCreated>>

\* SupabaseClient.get_task: the row with its id.
GetRecord(ts, id) ==
    [id |-> id, title |-> ts[id].title, priority |-> ts[id].priority,
     status |-> ts[id].status, est |-> ts[id].est,
     created_at |-> ts[id].created_at, updated_at |-> ts[id].updated_at]
\* GET /tasks/{id} and the agent's get_task tool (no check of the id's format).
\* `after` records that the request follows the create that returned this id.
GetTask(via, id, dbOk) ==
    /\ LET follows == resp.op = "create" /\ resp.id # NoId /\ resp.id = id
           R(r) == IF follows THEN [r EXCEPT !.after = id, !.given = resp.given] ELSE r
       IN
       IF via = "http" /\ id = NoId
       THEN resp' = Local("get", via, 400, id)
       ELSE IF ~dbOk \/ id = NoId
       THEN resp' = R(Served("get", via, Code(via, 500), id))
       ELSE IF id \notin DOMAIN tasks
       THEN resp' = R(Served("get", via, Code(via, 404), id))
       ELSE resp' = [R(Served("get", via, Code(via, 200), id))
                        EXCEPT !.data = <<GetRecord(tasks, id)>>]
    /\ UNCHANGED <<clock, serverTz, procVars, storeVars, cache, poll, rowsCreated>>

\* The reminder_time column is "TIMESTAMP": of the IST datetime's isoformat it keeps
\* the wall clock.  delay: what the reminder_time argument adds to the IST now.
StoredReminderTime(delay) == get_current_ist_time + delay
\* The agent's create_reminder tool.  dbOk = FALSE: the insert raised for another
\* reason than the foreign key.  The task id is not checked before the insert.
\* fire (history only): the instant the reminder is for.
CreateReminder(tid, delay, dbOk) ==
    /\ nextRem <= MaxReminders
    /\ IF dbOk /\ tid # NoId /\ ReminderInsertAccepted(tasks, tid)
       THEN /\ reminders' = Put(reminders, nextRem,
                                [task_id |-> tid, reminder_time |-> StoredReminderTime(delay),
                                 status |-> "pending", fire |-> clock + delay])
            /\ nextRem' = nextRem + 1
            /\ resp' = Served("create_reminder", "agent", ToolOk, nextRem)
       ELSE /\ resp' = Served("create_reminder", "agent", ToolFailed, tid)
            /\ UNCHANGED <<reminders, nextRem>>
    /\ UNCHANGED <<clock, serverTz, procVars, tasks, nextTask, notifs, nextNotif, index, cache,
                   poll, rowsCreated>>

\* An update that also detaches the notification from its task.
MarkedReadAndDetached(row) == [row EXCEPT !.is_read = TRUE, !.task_id = NoId]
\* update({"is_read": True}).eq("id", notification_id)
MarkedRead(row) == [row EXCEPT !.is_read = TRUE]
\* PATCH /notifications/{id}/read
MarkRead(nid) ==
    /\ IF nid = NoId
       THEN resp' = Local("mark_read", "http", 400, nid) /\ UNCHANGED notifs
       ELSE IF nid \notin DOMAIN notifs
       THEN resp' = Served("mark_read", "http", 404, nid) /\ UNCHANGED notifs
       ELSE /\ notifs' = [notifs EXCEPT ![nid] = MarkedRead(@)]
            /\ resp' = Served("mark_read", "http", 200, nid)
    /\ UNCHANGED <<clock, serverTz, procVars, tasks, nextTask, reminders, nextRem, nextNotif,
                   index, cache, poll, rowsCreated>>

\* DELETE /notifications/{id}
DeleteNotification(nid) ==
    /\ IF nid = NoId
       THEN resp' = Local("delete_notification", "http", 400, nid) /\ UNCHANGED notifs
       ELSE /\ notifs' = Remove(notifs, nid)
            /\ resp' = Served("delete_notification", "http", 200, nid)
    /\ UNCHANGED <<clock, serverTz, procVars, tasks, nextTask, reminders, nextRem, nextNotif,
                   index, cache, poll, rowsCreated>>

\* GET /tasks (via "http"): answered from _response_cache when the key's entry is
\* younger than CacheTTL seconds, from the store (and cached) otherwise.  The agent's
\* list_tasks tool (via "agent") has no cache and no offset, and answers [] when the
\* store raised.  rangeOk = FALSE: the ranged query raised; dbOk = FALSE: the
\* fallback query raised too.  `after` records that the request follows a create
\* that returned this id and asks for that task's priority with default paging.
ListTasks(via, status, priority, limit, offset, rangeOk, dbOk) ==
    /\ LET key == <<status, priority, limit, offset>>
           hit == key \in DOMAIN cache /\ clock - cache[key].time < CacheTTL
           after == IF /\ resp.op = "create" /\ resp.id # NoId
                       /\ priority = Some(resp.priority) /\ status = None
                       /\ limit = DefaultLimit /\ offset = 0
                    THEN resp.id ELSE NoId
           off == IF via = "http" THEN offset ELSE 0
           data == IF rangeOk THEN list_tasks(tasks, status, priority, limit, off)
                   ELSE list_tasks_fallback(tasks, status, priority, limit)
           R(r) == [r EXCEPT !.after = after,
                       !.req = [status |-> status, priority |-> priority,
                                limit |-> limit, offset |-> off]]
       IN IF via = "http" /\ ~ListQueryValid(status, priority, limit, offset)
          THEN resp' = R(Local("list", via, 422, NoId)) /\ UNCHANGED cache
          ELSE IF via = "http" /\ hit
          THEN /\ resp' = [R(Local("list", via, 200, NoId)) EXCEPT !.hit = TRUE,
                              !.stale = cache[key].stale, !.data = cache[key].data]
               /\ UNCHANGED cache
          ELSE IF ~rangeOk /\ ~dbOk
          THEN /\ resp' = R(Served("list", via, Code(via, IF via = "http" THEN 500 ELSE 200),
                                   NoId))
               /\ UNCHANGED cache
          ELSE /\ cache' = IF via = "http"
                           THEN Put(cache, key, [data |-> data, time |-> clock, stale |-> FALSE])
                           ELSE cache
               /\ resp' = [R(Served("list", via, Code(via, 200), NoId)) EXCEPT !.data = data]
    /\ UNCHANGED <<clock, serverTz, procVars, storeVars, poll, rowsCreated>>

\* Time passes.
TickHour ==
    /\ clock + HourSeconds <= MaxPollHours * HourSeconds
    /\ clock' = clock + HourSeconds
    /\ UNCHANGED <<serverTz, procVars, storeVars, cache, poll, resp, rowsCreated>>
\* The cache specification's clock moves in steps of the cache's time to live.
TickTTL ==
    /\ clock + CacheTTL <= MaxCacheSeconds
    /\ clock' = clock + CacheTTL
    /\ UNCHANGED <<serverTz, procVars, storeVars, cache, poll, resp, rowsCreated>>

\* Time passes to one minute before the full hour, and from there to the full hour.
TickToLastMinute ==
    /\ clock % HourSeconds = 0
    /\ clock + HourSeconds <= MaxPollHours * HourSeconds
    /\ clock' = clock + HourSeconds - MinuteSeconds
    /\ UNCHANGED <<serverTz, procVars, storeVars, cache, poll, resp, rowsCreated>>
TickLastMinute ==
    /\ clock % HourSeconds = HourSeconds - MinuteSeconds
    /\ clock' = clock + MinuteSeconds
    /\ UNCHANGED <<serverTz, procVars, storeVars, cache, poll, resp, rowsCreated>>

\* ------------------------------------------------------------- search tasks
\* "query_lower in title": q is a contiguous part of t.
SubstringOf(q, t) ==
    \E i \in 0..(Len(t) - Len(q)) : SubSeq(t, i + 1, i + Len(q)) = q
\* An index query that returns every id it holds.
ChromaQueryUnbounded(ix, n) == {ix}
\* ChromaDBClient.search_tasks: collection.query(n_results = n) returns the n nearest
\* ids of the collection, or all of them when it holds fewer; which ones are nearest
\* is the embedding's choice.
ChromaQuery(ix, n) == {I \in SUBSET ix : Cardinality(I) = Min(n, Cardinality(ix))}
\* collection.query rejects an n_results that is not positive.
ChromaRejects(n) == n <= 0
RECURSIVE FirstMatches(_, _, _, _)
\* The fallback's loop over all_tasks: a task whose title contains the query is
\* appended, and the loop breaks once len(matching_tasks) >= max_results.
FirstMatches(rows, q, max, found) ==
    IF rows = <<>> THEN found
    ELSE IF SubstringOf(q, Head(rows).title)
         THEN IF Len(found) + 1 >= max THEN Append(found, Head(rows))
              ELSE FirstMatches(Tail(rows), q, max, Append(found, Head(rows)))
         ELSE FirstMatches(Tail(rows), q, max, found)
\* list_tasks(limit=100): the newest rows, with the columns the search looks at.
SearchRows(ts) ==
    LET ids == Descending(DOMAIN ts)
    IN [k \in 1..Min(SearchScanLimit, Len(ids)) |-> [id |-> ids[k], title |-> ts[ids[k]].title]]
\* "for task_id in task_ids": get_task per id; an id whose fetch raised (fail) or that
\* has no row is left out.
FetchedRows(ts, I, fail) ==
    LET ids == Descending((I \ fail) \cap DOMAIN ts)
    IN [k \in 1..Len(ids) |-> [id |-> ids[k], title |-> ts[ids[k]].title]]
\* The agent's search_tasks tool.  ixOk = FALSE: the index query raised; fail: the
\* ids whose get_task raised; rangeOk, dbOk = FALSE: the fallback listing's ranged
\* query and its plain query raised.  req records the call and what went wrong.
SearchTasks(query, max, ixOk, fail, rangeOk, dbOk) ==
    /\ \E I \in (IF ChromaRejects(max) THEN {{}} ELSE ChromaQuery(index, max)) :
          LET raised == ~ixOk \/ ChromaRejects(max)
              fallback == ~raised /\ I = {}
              listRaised == fallback /\ ~rangeOk /\ ~dbOk
              failed == IF raised \/ fallback THEN {} ELSE fail \cap I
              data == IF raised \/ listRaised THEN <<>>
                      ELSE IF fallback THEN FirstMatches(SearchRows(tasks), query, max, <<>>)
                      ELSE FetchedRows(tasks, I, failed)
          IN resp' = [Served("search", "agent", ToolOk, NoId) EXCEPT
                         !.data = data, !.ixFailed = raised,
                         !.req = [query |-> query, max |-> max,
                                  ids |-> IF raised THEN {} ELSE I,
                                  fallback |-> fallback, failed |-> failed,
                                  rangeFailed |-> fallback /\ ~rangeOk,
                                  listFailed |-> listRaised]]
    /\ UNCHANGED <<clock, serverTz, procVars, storeVars, cache, poll, rowsCreated>>

\* ------------------------------------------------------------ specifications
Init ==
    /\ clock = 0
    /\ serverTz \in {0, ISTOffset}
    /\ tasks = EmptyFn /\ nextTask = 1
    /\ reminders = EmptyFn /\ nextRem = 1
    /\ notifs = EmptyFn /\ nextNotif = 1
    /\ index = {}
    /\ cache = EmptyFn
    /\ poll = [p \in Pollers |-> IdlePoll]
    /\ resp = Resp("none", 0, NoId)
    /\ rowsCreated = [r \in 1..MaxReminders |-> 0]
    /\ agent = NoAgent
    /\ sched = StartedScheduler

\* The inputs the specifications draw from.
ReminderDelays == {0, HourSeconds}
StatusUpdates == {StatusUpdate(s) : s \in {"in_progress", "completed"}}

\* The reminder phase of a poll cycle and the tasks query of phase 2, every store
\* call of which may fail (fail = {FALSE}) or not (fail = {}).
ReminderCycle(p, fail) ==
    \/ \E ok \in {TRUE} \cup fail : PollStart(p, ok)
    \/ \E ok \in {TRUE} \cup fail : RemFetch(p, ok)
    \/ \E ok \in {TRUE} \cup fail : RemNotify(p, ok)
    \/ \E ok \in {TRUE} \cup fail : RemMark(p, ok)
    \/ \E ok \in {TRUE} \cup fail : EstQuery(p, ok)
\* The per-task steps of phase 2.
EstimatedCycle(p, fail) ==
    \/ \E ok \in {TRUE} \cup fail : EstCheck(p, ok)
    \/ \E ok \in {TRUE} \cup fail : EstInsert(p, ok)

\* Users who create tasks with no estimated time, delete them, and set reminders
\* (for stored tasks and for ids that match none).
ReminderUsers ==
    \/ CreateTask("http", <<"a">>, "medium", "pending", None, TRUE, TRUE)
    \/ \E i \in TaskIds, c \in BOOLEAN : DeleteTask("http", i, c, TRUE, TRUE)
    \/ \E i \in TaskIds, d \in ReminderDelays : CreateReminder(i, d, TRUE)
    \/ TickHour

\* Spec: one poller (the scheduler runs one instance of the job at a time) that may
\* crash, a store whose calls may fail, and users who set reminders.  No task is
\* in progress here, so the per-task steps of phase 2 never run.
Next == ReminderCycle(1, {FALSE}) \/ Crash(1) \/ ReminderUsers
Spec == Init /\ [][Next]_vars

\* SpecCrash: as Spec, with a store that never fails.
NextCrash == ReminderCycle(1, {}) \/ Crash(1) \/ ReminderUsers
SpecCrash == Init /\ [][NextCrash]_vars

\* SpecOverlap: two pollers whose cycles overlap (two processes on one store);
\* nothing fails and nothing crashes.
NextOverlap == (\E p \in Pollers : ReminderCycle(p, {})) \/ ReminderUsers
SpecOverlap == Init /\ [][NextOverlap]_vars

\* SpecEst: one poller and users who work on tasks that have an estimated time
\* and handle their notifications.  No reminder exists here, so the per-reminder
\* steps of phase 1 never run.
EstUsers ==
    \/ CreateTask("http", <<"a">>, "medium", "in_progress", Some(1), TRUE, TRUE)
    \/ \E i \in TaskIds, u \in StatusUpdates : UpdateTask("http", i, u, TRUE, TRUE)
    \/ \E i \in TaskIds, c \in BOOLEAN : DeleteTask("http", i, c, TRUE, TRUE)
    \/ \E n \in 1..MaxNotifs : MarkRead(n)
    \/ \E n \in 1..MaxNotifs : DeleteNotification(n)
    \/ TickHour
NextEst ==
    \/ \E ok \in BOOLEAN : PollStart(1, ok)
    \/ \E ok \in BOOLEAN : EstQuery(1, ok)
    \/ EstimatedCycle(1, {FALSE})
    \/ Crash(1)
    \/ EstUsers
SpecEst == Init /\ [][NextEst]_vars

\* SpecElapsed: one poller on a store that never fails, users who start tasks with
\* an estimated time of one hour or none and update them, and a clock that stops
\* one minute before every full hour.
ElapsedEsts == {None, Some(0), Some(1)}
NextElapsed ==
    \/ PollStart(1, TRUE)
    \/ EstQuery(1, TRUE)
    \/ EstimatedCycle(1, {})
    \/ \E e \in ElapsedEsts : CreateTask("http", <<"a">>, "medium", "in_progress", e, TRUE, TRUE)
    \/ \E i \in TaskIds, u \in StatusUpdates : UpdateTask("http", i, u, TRUE, TRUE)
    \/ \E n \in 1..MaxNotifs : MarkRead(n)
    \/ TickToLastMinute
    \/ TickLastMinute
SpecElapsed == Init /\ [][NextElapsed]_vars

\* SpecAgent: the agent endpoints under every value of LLM_PROVIDER, every
\* combination of keys and of client constructors that succeed, and an executor that
\* answers or raises an error of any text.
ProviderSettings == LLMProviders \cup {"", "other"}
ErrorTexts == {{}, {"429"}, {"quota", "api key"}, {"resource_exhausted", "authentication"},
               {"api key"}, {"authentication", "tool"}, {"tool"}}
ChatMessages == {"", "hi"}
InitAgent ==
    /\ clock = 0
    /\ serverTz \in {0, ISTOffset}
    /\ tasks = EmptyFn /\ nextTask = 1
    /\ reminders = EmptyFn /\ nextRem = 1
    /\ notifs = EmptyFn /\ nextNotif = 1
    /\ index = {}
    /\ cache = EmptyFn
    /\ poll = [p \in Pollers |-> IdlePoll]
    /\ resp = Resp("none", 0, NoId)
    /\ rowsCreated = [r \in 1..MaxReminders |-> 0]
    /\ \E p \in ProviderSettings, k \in SUBSET LLMProviders, u \in SUBSET LLMProviders :
          agent = [NoAgent EXCEPT !.provider = p, !.keys = k, !.usable = u]
    /\ sched = StartedScheduler
NextAgent ==
    \/ GetAgent
    \/ \E m \in ChatMessages, r \in BOOLEAN, e \in ErrorTexts : AgentChat(m, r, e)
SpecAgent == InitAgent /\ [][NextAgent]_vars

\* SpecCrud: the task requests through the HTTP endpoints and through the agent's
\* tools, the list cache, and seconds passing.  No reminder exists and no poller runs.
CrudPriorities == {"high", "low"}
CrudEsts == {None, Some(EstMax + 1)}
CrudUpdates ==
    {NoUpdate, StatusUpdate("completed"), StatusUpdate("done"),
     [NoUpdate EXCEPT !.est = Some(EstMax + 1)]}
Vias == {"http", "agent"}
NextCrud ==
    \/ \E v \in Vias, p \in CrudPriorities, e \in CrudEsts :
          CreateTask(v, <<"a">>, p, "pending", e, TRUE, TRUE)
    \/ \E v \in Vias, i \in {NoId} \cup TaskIds, u \in CrudUpdates :
          UpdateTask(v, i, u, TRUE, TRUE)
    \/ \E v \in Vias, i \in {NoId} \cup TaskIds : DeleteTask(v, i, FALSE, TRUE, TRUE)
    \/ \E v \in Vias, i \in TaskIds : GetTask(v, i, TRUE)
    \/ ListTasks("http", None, Some("high"), DefaultLimit, 0, TRUE, TRUE)
    \/ TickTTL
SpecCrud == Init /\ [][NextCrud]_vars

\* SpecNotif: one poller on a store that never fails, next to every request that
\* writes: task requests through the endpoints and the agent's tools, reminder
\* creation, mark-read and delete of notifications.  Deleting a task leaves its
\* notifications (the notifications table's schema is the specification's).
NotifIds == {NoId} \cup (1..MaxNotifs)
NotifCreateTask ==
    /\ nextTask <= NotifTasks
    /\ CreateTask("http", <<"a">>, "medium", "in_progress", Some(1), TRUE, TRUE)
NotifCreateReminder ==
    /\ nextRem <= NotifReminders
    /\ \E i \in 1..NotifTasks : CreateReminder(i, 0, TRUE)
NextNotif ==
    \/ ReminderCycle(1, {})
    \/ EstimatedCycle(1, {})
    \/ NotifCreateTask
    \/ \E i \in 1..NotifTasks : UpdateTask("agent", i, StatusUpdate("completed"), TRUE, TRUE)
    \/ \E i \in 1..NotifTasks : DeleteTask("agent", i, FALSE, TRUE, TRUE)
    \/ NotifCreateReminder
    \/ \E n \in NotifIds : MarkRead(n)
    \/ \E n \in NotifIds : DeleteNotification(n)
    \/ TickHour
SpecNotif == Init /\ [][NextNotif]_vars

\* SpecIsolation: one poller whose every store call may fail, reminders below the
\* row cap, and tasks in progress whose estimated time is one hour.
NextIsolation ==
    \/ \E ok \in BOOLEAN : PollStartBelowCap(1, ok)
    \/ \E ok \in BOOLEAN : RemFetch(1, ok)
    \/ \E ok \in BOOLEAN : RemNotify(1, ok)
    \/ \E ok \in BOOLEAN : RemMark(1, ok)
    \/ \E ok \in BOOLEAN : EstQuery(1, ok)
    \/ EstimatedCycle(1, {FALSE})
    \/ CreateTask("http", <<"a">>, "medium", "in_progress", Some(1), TRUE, TRUE)
    \/ \E i \in TaskIds : CreateReminder(i, 0, TRUE)
    \/ TickHour
SpecIsolation == Init /\ [][NextIsolation]_vars

\* SpecBacklog: one poller that the interval job runs again and again, on a store
\* whose writes succeed (its reads may raise), and users who set reminders.  The
\* job fires every interval (weak fairness of the cycle's steps) and the reminders
\* query answers again and again (strong fairness of the successful read).
BacklogSteps ==
    \/ \E ok \in BOOLEAN : PollStart(1, ok)
    \/ \E ok \in BOOLEAN : RemFetch(1, ok)
    \/ \E ok \in BOOLEAN : RemNotify(1, ok)
    \/ RemMark(1, TRUE)
    \/ \E ok \in BOOLEAN : EstQuery(1, ok)
NextBacklog ==
    \/ BacklogSteps
    \/ CreateTask("http", <<"a">>, "medium", "pending", None, TRUE, TRUE)
    \/ \E i \in TaskIds : DeleteTask("http", i, FALSE, TRUE, TRUE)
    \/ \E i \in TaskIds : CreateReminder(i, 0, TRUE)
    \/ TickHour
SpecBacklog ==
    Init /\ [][NextBacklog]_vars /\ WF_vars(BacklogSteps) /\ SF_vars(PollStart(1, TRUE))

\* SpecSched: the process creates its ReminderScheduler (get_reminder_scheduler) with
\* SCHEDULER_ENABLED either way and calls start() and stop() in any order; a started
\* scheduler fires the job, whose cycle then runs to its end; users set reminders.
InitSched ==
    /\ clock = 0
    /\ serverTz \in {0, ISTOffset}
    /\ tasks = EmptyFn /\ nextTask = 1
    /\ reminders = EmptyFn /\ nextRem = 1
    /\ notifs = EmptyFn /\ nextNotif = 1
    /\ index = {}
    /\ cache = EmptyFn
    /\ poll = [p \in Pollers |-> IdlePoll]
    /\ resp = Resp("none", 0, NoId)
    /\ rowsCreated = [r \in 1..MaxReminders |-> 0]
    /\ agent = NoAgent
    /\ \E e \in BOOLEAN : sched = NewScheduler(e)
\* The interval trigger of a started scheduler fires the job.
JobFires(p) == sched.active > 0 /\ PollStart(p, TRUE)
NextSched ==
    \/ \E o \in StartOutcomes : SchedStart(o)
    \/ \E ok \in BOOLEAN : SchedStop(ok)
    \/ JobFires(1)
    \/ RemFetch(1, TRUE)
    \/ RemNotify(1, TRUE)
    \/ RemMark(1, TRUE)
    \/ EstQuery(1, TRUE)
    \/ CreateTask("http", <<"a">>, "medium", "pending", None, TRUE, TRUE)
    \/ \E i \in TaskIds : CreateReminder(i, 0, TRUE)
SpecSched == InitSched /\ [][NextSched]_vars

\* SpecSearch: the agent's search tool next to task creates and deletes whose index
\* mirror may fail, so that the index comes to hold ids of deleted tasks and to lack
\* ids of stored ones.
SearchQueries == {<<"a">>, <<"b">>}
SearchMaxResults == -1..MaxTasks
NextSearch ==
    \/ \E t \in SearchQueries, ixOk \in BOOLEAN :
          CreateTask("agent", t, "medium", "pending", None, TRUE, ixOk)
    \/ \E i \in TaskIds, ixOk \in BOOLEAN : DeleteTask("agent", i, FALSE, TRUE, ixOk)
    \/ \E q \in SearchQueries, m \in SearchMaxResults, ixOk \in BOOLEAN,
          fail \in SUBSET TaskIds, rangeOk \in BOOLEAN, dbOk \in BOOLEAN :
          SearchTasks(q, m, ixOk, fail, rangeOk, dbOk)
SpecSearch == Init /\ [][NextSearch]_vars

\* SpecService: the task requests (create, get, update, delete) through the HTTP
\* endpoints and the agent's tools, with well-formed ids and an index mirror that
\* may fail.  The store answers every call.
ServiceTitles == {<<>>, <<" ">>, <<" ", "a", " ">>}
ServiceEsts == {None, Some(EstMax), Some(EstMax + 1)}
ServiceUpdates ==
    {NoUpdate, StatusUpdate("completed"), [NoUpdate EXCEPT !.title = Some(<<"b", " ">>)]}
NextService ==
    \/ \E v \in Vias, t \in ServiceTitles, e \in ServiceEsts, ix \in BOOLEAN :
          CreateTask(v, t, "high", "pending", e, TRUE, ix)
    \/ \E v \in Vias, i \in TaskIds : GetTask(v, i, TRUE)
    \/ \E v \in Vias, i \in TaskIds, u \in ServiceUpdates, ix \in BOOLEAN :
          UpdateTask(v, i, u, TRUE, ix)
    \/ \E v \in Vias, i \in TaskIds, ix \in BOOLEAN : DeleteTask(v, i, FALSE, TRUE, ix)
SpecService == Init /\ [][NextService]_vars

\* SpecIds: the requests that carry an identifier, with identifiers that are
\* malformed, well formed and unknown, and well formed and stored.
RequestIds == {NoId} \cup TaskIds
NextIds ==
    \/ CreateTask("http", <<"a">>, "high", "pending", None, TRUE, TRUE)
    \/ \E v \in Vias, i \in RequestIds : GetTask(v, i, TRUE)
    \/ \E v \in Vias, i \in RequestIds : UpdateTask(v, i, StatusUpdate("completed"), TRUE, TRUE)
    \/ \E v \in Vias, i \in RequestIds : DeleteTask(v, i, FALSE, TRUE, TRUE)
    \/ \E i \in RequestIds : CreateReminder(i, 0, TRUE)
    \/ \E n \in {NoId, 1} : MarkRead(n)
    \/ \E n \in {NoId, 1} : DeleteNotification(n)
SpecIds == Init /\ [][NextIds]_vars

\* SpecTz: one poller on a store that never fails, users who set reminders, and a
\* server whose local zone is UTC, Asia/Kolkata or a zone further east.
ServerZones == {0, ISTOffset, 2 * ISTOffset}
InitTz ==
    /\ clock = 0
    /\ serverTz \in ServerZones
    /\ tasks = EmptyFn /\ nextTask = 1
    /\ reminders = EmptyFn /\ nextRem = 1
    /\ notifs = EmptyFn /\ nextNotif = 1
    /\ index = {}
    /\ cache = EmptyFn
    /\ poll = [p \in Pollers |-> IdlePoll]
    /\ resp = Resp("none", 0, NoId)
    /\ rowsCreated = [r \in 1..MaxReminders |-> 0]
    /\ agent = NoAgent
    /\ sched = StartedScheduler
NextTz ==
    \/ ReminderCycle(1, {})
    \/ CreateTask("http", <<"a">>, "medium", "pending", None, TRUE, TRUE)
    \/ \E i \in TaskIds, d \in ReminderDelays : CreateReminder(i, d, TRUE)
    \/ TickHour
SpecTz == InitTz /\ [][NextTz]_vars

\* SpecList: tasks are created and completed, and listed through GET /tasks and
\* through the agent's list_tasks tool, with filters in any letter case, pages of
\* one and two records, and a ranged query that may raise.
ListRequests ==
    {<<"http", None, None, 1, 0>>, <<"http", None, None, 1, 1>>,
     <<"http", Some("pending"), None, 2, 0>>, <<"http", Some("PENDING"), None, 2, 0>>,
     <<"agent", Some("Pending"), None, 2, 0>>, <<"agent", None, Some("HIGH"), 1, 0>>,
     <<"agent", Some("PENDING"), Some("High"), 2, 0>>}
NextList ==
    \/ \E p \in CrudPriorities : CreateTask("http", <<"a">>, p, "pending", None, TRUE, TRUE)
    \/ \E v \in Vias, i \in TaskIds : UpdateTask(v, i, StatusUpdate("completed"), TRUE, TRUE)
    \/ \E q \in ListRequests, rangeOk \in BOOLEAN, dbOk \in BOOLEAN :
          ListTasks(q[1], q[2], q[3], q[4], q[5], rangeOk, dbOk)
SpecList == Init /\ [][NextList]_vars

\* ==================================================================== claims
ReminderRows(r) ==
    {n \in DOMAIN notifs : notifs[n].reminder_id = r /\ notifs[n].category = "reminder"}
Terminal == {"sent", "failed"}

C2_SentHasExactlyOneRow ==
    \A r \in DOMAIN reminders :
        reminders[r].status = "sent" => Cardinality(ReminderRows(r)) = 1

\* C3: no task ever has two unread notifications of category "estimated_time".
C3_AtMostOneUnreadEstimated ==
    \A t \in TaskIds : Cardinality(UnreadEstimated(notifs, t)) <= 1
C3_Witness ==
    \E t \in DOMAIN tasks :
        /\ Cardinality(UnreadEstimated(notifs, t)) = 1
        /\ \E n \in DOMAIN notifs :
              notifs[n].task_id = t /\ notifs[n].category = "estimated_time" /\ notifs[n].is_read

\* C4 (as stated): a reminder's status changes exactly once over its lifetime,
\* from "pending" to "sent" or "failed": every change is such a change, and a
\* reminder whose lifetime ends has made it.
C4_ChangesExactlyOnce ==
    [][\A r \in DOMAIN reminders :
          IF r \in DOMAIN reminders'
          THEN reminders'[r].status # reminders[r].status
                  => reminders[r].status = "pending" /\ reminders'[r].status \in Terminal
          ELSE reminders[r].status \in Terminal]_vars
\* C4 (amended): a reminder's status changes at most once, from "pending" to "sent"
\* or from "pending" to "failed"; "sent" and "failed" are terminal: no poll cycle
\* holds a reminder that is "sent" or "failed" in its batch or in work.
HeldByPoller(p) ==
    {x.id : x \in poll[p].batch} \cup
    (IF poll[p].pc \in {"rem_notify", "rem_mark"} THEN {poll[p].cur.id} ELSE {})
C4_TerminalNotReprocessed ==
    \A r \in HeldByPoller(1) \cap DOMAIN reminders : reminders[r].status = "pending"
C4_ChangesAtMostOnce ==
    /\ []C4_TerminalNotReprocessed
    /\ [][\A r \in DOMAIN reminders \cap DOMAIN reminders' :
             reminders'[r].status # reminders[r].status
                => reminders[r].status = "pending" /\ reminders'[r].status \in Terminal]_vars
C4_Witness ==
    /\ poll[1].pc = "rem_mark"
    /\ \E r \in DOMAIN reminders :
          reminders[r].status \in Terminal /\ reminders[r].reminder_time <= poll[1].now

\* C5 (as stated): with two overlapping poll cycles no reminder gets more than one
\* notification row.
C5_OverlapOneRow ==
    \A r \in DOMAIN reminders : Cardinality(ReminderRows(r)) <= 1

\* C6 (as stated): over poll cycles, crashes and restarts, no reminder ever has
\* more than one notification row created for it.
C6_AtMostOnceDelivery ==
    \A r \in DOMAIN rowsCreated : rowsCreated[r] <= 1

\* C7 (as stated): every stored task has an enumerated status and priority and an
\* estimated duration that is absent or within [0, 24].
C7_StoredTasksValid ==
    \A t \in DOMAIN tasks :
        /\ tasks[t].status \in Statuses
        /\ tasks[t].priority \in Priorities
        /\ ValidEstimatedHours(tasks[t].est)

\* C8: every reminder references a stored task; a create_reminder that succeeds
\* has inserted a row for a stored task, one that fails has inserted nothing.
C8_ReferencesHold ==
    \A r \in DOMAIN reminders : reminders[r].task_id \in DOMAIN tasks
C8_RemindersReferenceTasks ==
    /\ []C8_ReferencesHold
    /\ [][(resp'.op = "create_reminder" /\ resp' # resp)
            => IF resp'.code = ToolOk
               THEN /\ DOMAIN reminders' = DOMAIN reminders \cup {resp'.id}
                    /\ resp'.id \notin DOMAIN reminders
                    /\ reminders'[resp'.id].task_id \in DOMAIN tasks
               ELSE reminders' = reminders]_vars
C8_Witness ==
    /\ resp.op = "create_reminder" /\ resp.code = ToolFailed
    /\ resp.id \notin DOMAIN tasks
    /\ nextRem > 1 /\ DOMAIN reminders = {} /\ DOMAIN tasks # {}

\* C9 (as stated): no GET /tasks is answered from a cache entry computed before a
\* write that has completed.
C9_NoStaleCacheHit ==
    (resp.op = "list" /\ resp.hit) => ~resp.stale

\* C10 (as stated): a list(priority = p) with default paging that follows a create
\* which returned id i with priority p includes a record with id i.
C10_ListIncludesCreated ==
    (resp.op = "list" /\ resp.code = 200 /\ resp.after # NoId)
        => resp.after \in Ids(resp.data)

\* C11: update(id, {status: "completed"}) on an existing task returns the record
\* and leaves the task "completed", the first time and every time after it.
OkCodes == {200, 201, 204}
C12_DeletedNotServed ==
    /\ (resp.op = "delete" /\ resp.was # "")
          => resp.code \in OkCodes /\ resp.id \notin DOMAIN tasks
    /\ (resp.op = "get" /\ resp.id \notin DOMAIN tasks)
          => resp.code \notin OkCodes /\ resp.data = <<>>
    /\ resp.op \in {"get", "list"} => Ids(resp.data) \subseteq DOMAIN tasks

\* C13: every record a list returns has the status, and the priority, that is the
\* lowercase form of the filter the request carried, in whatever letter case.
C13_ListReturnsOnlyMatching ==
    resp.op = "list" =>
        \A k \in DOMAIN resp.data :
            /\ \A f \in resp.req.status : resp.data[k].status = Lower(f)
            /\ \A f \in resp.req.priority : resp.data[k].priority = Lower(f)
C13_Witness ==
    /\ resp.op = "list" /\ resp.data # <<>>
    /\ resp.req.status = Some("PENDING") /\ resp.req.priority = Some("High")
    /\ \E i \in DOMAIN tasks : tasks[i].status # "pending" \/ tasks[i].priority # "high"

C15_NotFoundOnlyWhenAbsent ==
    (resp.op = "update" /\ resp.via = "http" /\ resp.code = 404) => resp.was = ""
ProvidedBy(r) == IF r.via = "agent" THEN AgentUpdate(r.upd) ELSE r.upd
C15_UpdateMergesOrNotFound ==
    /\ []C15_NotFoundOnlyWhenAbsent
    /\ [][(resp'.op = "update" /\ resp'.code \in OkCodes /\ (resp' # resp \/ tasks' # tasks))
            => LET i == resp'.id
                   u == ProvidedBy(resp')
               IN /\ DOMAIN tasks' = DOMAIN tasks /\ i \in DOMAIN tasks
                  /\ \A j \in DOMAIN tasks \ {i} : tasks'[j] = tasks[j]
                  /\ tasks'[i].title \in (IF u.title = None THEN {tasks[i].title} ELSE u.title)
                  /\ tasks'[i].priority \in (IF u.priority = None THEN {tasks[i].priority}
                                             ELSE u.priority)
                  /\ tasks'[i].status \in (IF u.status = None THEN {tasks[i].status}
                                           ELSE u.status)
                  /\ tasks'[i].est = (IF u.est = None THEN tasks[i].est ELSE u.est)
                  /\ tasks'[i].created_at = tasks[i].created_at
                  /\ tasks'[i].updated_at = ServerNow']_vars


\* C16: DELETE /tasks/{id} with a well-formed id that no task has answers 404, and
\* 204 is answered only when a task with that id was stored and has been removed.
C16_DeleteUnknownIsNotFound ==
    (resp.op = "delete" /\ resp.via = "http" /\ resp.id # NoId /\ resp.store)
        => /\ resp.was = "" => resp.code = 404
           /\ resp.code = 204 => (resp.was # "" /\ resp.id \notin DOMAIN tasks)


\* C17: a request that carries a malformed task or notification identifier is
\* refused with an error before the store is called, through the HTTP endpoints and
\* through the agent's tools alike.
IdRequests == {"get", "update", "delete", "create_reminder", "mark_read", "delete_notification"}
C17_MalformedIdRejectedBeforeStore ==
    (resp.op \in IdRequests /\ resp.id = NoId)
        => (~resp.store /\ resp.code \notin OkCodes)


\* C18: when the index mirror fails during a create, update or delete of a task, the
\* caller gets the success answer of the operation and the rows of the store are
\* those the operation leaves when the index call succeeds: the new row is stored
\* under the returned id, the updated row holds the provided fields, the deleted
\* row is gone, and no other row changes.
SuccessCode(op, via) ==
    IF via = "agent" THEN ToolOk
    ELSE IF op = "create" THEN 201 ELSE IF op = "update" THEN 200 ELSE 204
C18_IndexFailureNotSurfaced ==
    [][(resp'.ixFailed /\ (resp' # resp \/ tasks' # tasks))
        => LET i == resp'.id
               u == ProvidedBy(resp')
           IN /\ resp'.op \in {"create", "update", "delete"}
              /\ resp'.code = SuccessCode(resp'.op, resp'.via)
              /\ \A j \in DOMAIN tasks \ {i} : j \in DOMAIN tasks' /\ tasks'[j] = tasks[j]
              /\ resp'.op = "create"
                    => /\ i = nextTask /\ DOMAIN tasks' = DOMAIN tasks \cup {i}
                       /\ tasks'[i].title = validate_title(resp'.given.title)
                       /\ tasks'[i].priority = resp'.priority
              /\ resp'.op = "update"
                    => /\ DOMAIN tasks' = DOMAIN tasks /\ i \in DOMAIN tasks
                       /\ tasks'[i] = MergeUpdate(tasks[i], u)
              /\ resp'.op = "delete" => tasks' = Remove(tasks, i)]_vars
C18_Witness ==
    /\ resp.ixFailed /\ resp.op = "update" /\ resp.code \in OkCodes
    /\ resp.was = "pending" /\ resp.id \in DOMAIN tasks
    /\ tasks[resp.id].status = "completed" /\ resp.id \notin index


\* C19: a list request the HTTP endpoint accepts and answers from the store returns
\* exactly the records at positions offset .. offset+limit-1 of the matching tasks,
\* newest first, also when the ranged query failed and the fallback query answered.
ExpectedPage(ts, req) ==
    LET ids == Descending(Matching(ts, req.status, req.priority))
        from == req.offset + 1
        to == Min(req.offset + req.limit, Len(ids))
    IN [k \in 1..(IF to >= from THEN to - from + 1 ELSE 0) |-> ids[req.offset + k]]
C19_ListReturnsThePage ==
    (resp.op = "list" /\ resp.via = "http" /\ resp.code = 200 /\ ~resp.hit)
        => /\ Len(resp.data) <= resp.req.limit
           /\ [k \in DOMAIN resp.data |-> resp.data[k].id] = ExpectedPage(tasks, resp.req)


\* C20: whatever the server's local zone, the reminders a poll selects as due are
\* exactly the pending reminders whose fire instant is not after the instant of the
\* poll: none before its fire instant, every one at or after it.
C20_DueAtFireInstant ==
    [][(poll[1].pc = "idle" /\ poll'[1] # poll[1])
        => poll'[1].due = {r \in DOMAIN reminders : /\ reminders[r].status = "pending"
                                                    /\ reminders[r].fire <= clock}]_vars


\* C21 (as stated): a poll creates an "estimated_time" notification only for a task
\* that, when the poll read the tasks, was in progress with an estimated duration
\* greater than 0 that had elapsed since its last update.
Elapsed(row, now, tolerance) ==
    /\ row.status = "in_progress"
    /\ row.est # None
    /\ \A h \in row.est : h > 0 /\ now + tolerance >= row.updated_at + h * HourSeconds
\* The notification rows a step creates.
CreatedNotifs == {n \in DOMAIN notifs' : n \notin DOMAIN notifs}
\* The tasks a poll holds for notification are those its tasks query selected, and
\* an "estimated_time" row is created only for the task the poll is working on.
EstimatedOnlyForSelected ==
    /\ poll'[1].tbatch # poll[1].tbatch
          => (poll[1].pc = "est_query" \/ poll'[1].tbatch \subseteq poll[1].tbatch)
    /\ (poll'[1].pc = "est_insert" /\ poll'[1] # poll[1])
          => poll'[1].cur.task_id \in poll[1].tbatch
    /\ \A n \in CreatedNotifs :
          notifs'[n].category = "estimated_time"
              => poll[1].pc = "est_insert" /\ notifs'[n].task_id = poll[1].cur.task_id
SelectedElapsed(tolerance) ==
    (poll[1].pc = "est_query" /\ poll'[1] # poll[1])
        => \A t \in poll'[1].tbatch :
              t \in DOMAIN tasks /\ Elapsed(tasks[t], poll[1].now, tolerance)
C21_NotifiedOnlyWhenElapsed ==
    [][EstimatedOnlyForSelected /\ SelectedElapsed(0)]_vars
\* C21 (amended): the same with a tolerance of one minute: the estimated duration
\* less one minute has elapsed since the task's last update.
C21_NotifiedOnlyWhenElapsedLessOneMinute ==
    [][EstimatedOnlyForSelected /\ SelectedElapsed(MinuteSeconds)]_vars
C21_Witness ==
    /\ clock = HourSeconds - MinuteSeconds
    /\ \E n \in DOMAIN notifs :
          /\ notifs[n].category = "estimated_time"
          /\ notifs[n].task_id \in DOMAIN tasks
          /\ tasks[notifs[n].task_id].status = "in_progress"


\* C22: agent construction fails only when no provider has both a key and a client
\* that can be constructed: whenever some provider has both, an LLM is returned.
C22_LLMWheneverAProviderIsUsable ==
    (agent.reached \in {"construct", "invoke"} /\ agent.keys \cap agent.usable # {})
        => agent.llm # "none"


\* C23: process_user_input always returns a record with a timestamp and a status
\* that is "success" or "error"; an error record carries an output message, and an
\* error whose text holds a quota marker is classified as quota exceeded even when
\* it also holds an API-key or authentication marker.
StatedQuotaMarkers == {"429", "quota", "resource_exhausted"}
C23_AlwaysARecordQuotaFirst ==
    agent.reached = "invoke"
        => /\ agent.reply.status \in {"success", "error"}
           /\ agent.reply.timestamp # None
           /\ agent.reply.status = "error" <=> agent.raised
           /\ agent.reply.status = "error" => agent.reply.output # ""
           /\ (agent.raised /\ agent.markers \cap StatedQuotaMarkers # {})
                 => agent.reply.error = "quota"
           /\ agent.reply.error = "api_key"
                 => agent.markers \cap StatedQuotaMarkers = {}
C23_Witness ==
    /\ agent.reached = "invoke" /\ agent.raised
    /\ agent.markers \cap StatedQuotaMarkers # {} /\ agent.markers \cap AuthMarkers # {}
    /\ agent.reply.status = "error" /\ agent.reply.error = "quota"


\* C24: POST /agent/chat with a missing or empty message answers 400 without
\* constructing or invoking the agent; with a non-empty message it answers with a
\* record whose status is "success" or "error", also when the agent cannot be
\* constructed or the executor raises.
C24_ChatRejectsEmptyElseRecord ==
    [][(agent'.op = "chat" /\ agent' # agent)
        => IF agent'.message = ""
           THEN /\ agent'.code = 400 /\ agent'.reached = "validate"
                /\ agent'.llm = agent.llm /\ agent'.reply = NoReply
           ELSE /\ agent'.code = 200
                /\ agent'.reply.status \in {"success", "error"}
                /\ agent'.reply.timestamp # None]_vars
C24_Witness ==
    /\ agent.op = "chat" /\ agent.message # "" /\ agent.reached = "construct"
    /\ agent.llm = "none" /\ agent.code = 200 /\ agent.reply.status = "error"


\* C25: a notification row is created only by a step of the poller, removed only by
\* a delete-notification request for its id, and changed only by a mark-read
\* request for its id, which sets is_read and nothing else; task requests, reminder
\* creation and the agent's tools leave the notifications as they are, and a
\* mark-read for an id that matches no row answers 404 and changes nothing.
RemovedNotifs == {n \in DOMAIN notifs : n \notin DOMAIN notifs'}
ChangedNotifs == {n \in DOMAIN notifs \cap DOMAIN notifs' : notifs'[n] # notifs[n]}
C26_FailedHasNoRow ==
    \A r \in DOMAIN reminders : reminders[r].status = "failed" => rowsCreated[r] = 0
C26_FailedOnlyWithoutTask ==
    /\ []C26_FailedHasNoRow
    /\ [][/\ (poll[1].pc = "rem_fetch" /\ poll'[1].pc = "rem_mark")
                => /\ poll'[1].mark = "failed"
                   /\ notifs' = notifs /\ rowsCreated' = rowsCreated
          /\ (poll[1].pc = "rem_fetch" /\ poll'[1].pc = "rem_notify")
                => poll'[1].cur.task_id \in DOMAIN tasks
          /\ (poll[1].pc = "rem_mark" /\ poll'[1] # poll[1])
                => notifs' = notifs
          /\ \A r \in DOMAIN reminders \cap DOMAIN reminders' :
                (reminders'[r].status = "failed" /\ reminders[r].status # "failed")
                    => poll[1].pc = "rem_mark" /\ poll[1].cur.id = r
                       /\ poll[1].mark = "failed"]_vars


\* C27: inside one poll cycle a failure stays with the item it hit: the reminder
\* loop goes through every reminder the poll read, writing a status for each,
\* whatever happens to the others; the estimated-time phase runs in every cycle,
\* also when the reminders query raised; the task loop goes through every task its
\* query returned; and the cycle ends in the idle state, never with an error.
ReminderPhase == {"rem_fetch", "rem_notify", "rem_mark"}
EstimatedPhase == {"est_query", "est_check", "est_insert"}
C27_FailuresIsolated ==
    [][poll'[1] # poll[1] =>
        /\ poll'[1].pc \in {"idle"} \cup ReminderPhase \cup EstimatedPhase
        /\ poll[1].pc = "idle" => poll'[1].pc \in {"rem_fetch", "est_query"}
        /\ (poll[1].pc \in ReminderPhase /\ poll'[1].pc \notin ReminderPhase)
              => /\ poll[1].pc = "rem_mark" /\ poll'[1].pc = "est_query"
                 /\ poll[1].batch = {}
        /\ poll[1].pc = "rem_fetch"
              => /\ poll'[1].pc \in {"rem_notify", "rem_mark"}
                 /\ \E x \in poll[1].batch :
                       poll'[1].batch = poll[1].batch \ {x} /\ poll'[1].cur = x
        /\ poll[1].pc = "rem_notify" => poll'[1].pc = "rem_mark"
        /\ poll[1].pc \in {"rem_notify", "rem_mark"}
              => poll'[1].batch = poll[1].batch
        /\ (poll[1].pc = "est_query" /\ poll'[1].pc = "idle") => poll'[1].tbatch = {}
        /\ poll[1].pc = "est_check"
              => \E t \in poll[1].tbatch : poll'[1].tbatch = poll[1].tbatch \ {t}
        /\ poll[1].pc = "est_insert" => poll'[1].tbatch = poll[1].tbatch
        /\ (poll[1].pc \in {"est_check", "est_insert"} /\ poll'[1].pc = "idle")
              => poll'[1].tbatch = {}]_vars
C27_Witness ==
    /\ poll[1].done /\ poll[1].pc = "idle"
    /\ \E r1, r2 \in poll[1].read \cap DOMAIN reminders :
          /\ reminders[r1].status = "failed" /\ reminders[r1].task_id \in DOMAIN tasks
          /\ reminders[r2].status = "sent" /\ rowsCreated[r2] = 1
    /\ \E n \in DOMAIN notifs : notifs[n].category = "estimated_time"


\* C28: a poll cycle reads at most the row cap of due reminders and handles them
\* one at a time; and when more reminders are due than the cap and the store's
\* writes succeed, every due pending reminder is eventually out of "pending"
\* (sent, failed, or deleted with its task): later cycles take up what the cap
\* left behind.
OverCap == Cardinality(DueReminders(reminders, ServerNow)) > PollRowCap
C28_AtMostCapPerCycle ==
    /\ Cardinality(poll[1].read) <= PollRowCap
    /\ Cardinality(poll[1].batch) <= PollRowCap
    /\ poll[1].pc \in {"rem_notify", "rem_mark"} => poll[1].cur.id \in poll[1].read
SchedSame(a, b) ==
    /\ a.enabled = b.enabled /\ a.scheduler = b.scheduler
    /\ a.running = b.running /\ a.active = b.active
C29_OneJob ==
    /\ sched.active \in {0, 1}
    /\ sched.running <=> sched.active = 1
    /\ sched.running <=> sched.scheduler = "started"
    /\ ~sched.enabled => sched.active = 0
C29_AtMostOnePollingJob ==
    /\ []C29_OneJob
    /\ [][/\ (sched.running /\ sched'.op = "start" /\ sched' # sched)
                => SchedSame(sched, sched') /\ sched'.did = "already_running"
          /\ (~sched.running /\ sched.enabled /\ sched'.did = "started" /\ sched' # sched)
                => sched'.running /\ sched'.active = 1
          /\ (sched'.did = "stopped" /\ sched' # sched)
                => sched.running /\ ~sched'.running /\ sched'.active = 0
          /\ (poll[1].pc = "idle" /\ poll'[1].pc # "idle") => sched.running]_vars
C29_Witness ==
    /\ sched.stopped /\ sched.running /\ sched.active = 1
    /\ sched.op = "start" /\ sched.did = "already_running"
    /\ poll[1].pc = "rem_mark"


\* C30: what search_tasks returns are rows of the relational store, at most
\* max_results of them (none for a max_results below one), whatever the index
\* holds; it returns a list in every case, and the empty list whenever something
\* raised.
SearchErrors ==
    resp.ixFailed \/ resp.req.failed # {} \/ resp.req.rangeFailed \/ resp.req.listFailed
C30_SearchOnlyStoredEmptyOnError ==
    resp.op = "search" =>
        /\ \A k \in DOMAIN resp.data :
              /\ resp.data[k].id \in DOMAIN tasks
              /\ resp.data[k].title = tasks[resp.data[k].id].title
        /\ Len(resp.data) <= (IF resp.req.max > 0 THEN resp.req.max ELSE 0)
        /\ SearchErrors => resp.data = <<>>
\* C30, as the code has it: the list is empty when the index query or both queries
\* of the fallback listing raised; a task whose fetch raised is left out and the
\* other tasks the index named are returned; a ranged listing that raised is
\* repeated without the range.
C30_SearchOnlyStoredErrorsSkipped ==
    resp.op = "search" =>
        /\ \A k \in DOMAIN resp.data :
              /\ resp.data[k].id \in DOMAIN tasks
              /\ resp.data[k].title = tasks[resp.data[k].id].title
        /\ Len(resp.data) <= (IF resp.req.max > 0 THEN resp.req.max ELSE 0)
        /\ (resp.ixFailed \/ resp.req.listFailed) => resp.data = <<>>
        /\ ~resp.req.fallback /\ ~resp.ixFailed
              => {resp.data[k].id : k \in DOMAIN resp.data}
                    = (resp.req.ids \ resp.req.failed) \cap DOMAIN tasks
        /\ resp.req.fallback /\ ~resp.req.listFailed
              => \A k \in DOMAIN resp.data : SubstringOf(resp.req.query, resp.data[k].title)
C30_Witness ==
    /\ resp.op = "search" /\ ~resp.ixFailed /\ resp.req.failed = {}
    /\ resp.req.max >= 1
    /\ \E i \in resp.req.ids : i \notin DOMAIN tasks
    /\ \E i \in DOMAIN tasks \ index : SubstringOf(resp.req.query, tasks[i].title)
    /\ resp.data = <<>>

====
